---------------------------- MODULE Spec2Model ----------------------------
(***************************************************************************)
(* A model of the nydus-snapshotter converter and OSS backend:             *)
(*   - pkg/backend/oss.go: splitFileByPartSize, OSSBackend.push and the    *)
(*     retry loop OSSBackend.Push, against an object store whose calls     *)
(*     may fail;                                                           *)
(*   - pkg/converter: unpackBootstrapFromNydusTar, the reverse scan that   *)
(*     recovers the bootstrap from the tail of a nydus tar blob.           *)
(* Sizes of the uploader are counted in MiB (multipartChunkSize is 500     *)
(* MiB), durations in seconds, blob offsets of the locator in bytes.       *)
(***************************************************************************)
EXTENDS Integers, Sequences, FiniteSets, TLC

(***************************************************************************)
(* Program constants.                                                      *)
(***************************************************************************)
\* oss.go:30  multipartChunkSize = 500 * 1024 * 1024 bytes, here in MiB
multipartChunkSize == 500
\* oss.go:88  the part count at which splitFileByPartSize refuses
maxPartCount == 10000
\* oss.go:173 backoff := time.Second
baseBackoff == 1
\* oss.go:187 backoff >= 8*time.Second
maxBackoff == 8
\* types.go:186 const headerSize = 512
headerSize == 512

(***************************************************************************)
(* Bounds of the model.                                                    *)
(***************************************************************************)
\* Push is checked on blobs of 0..MaxChunks chunks (and on one oversized blob)
MaxChunks == 2
\* splitFileByPartSize is checked on every size 0..MaxSplitBlobSize ...
MaxSplitBlobSize == 12
\* ... and every chunk size -1..MaxSplitChunkSize, and around the ceiling
MaxSplitChunkSize == 3
\* the bootstrap of a nydus tar holds 0..MaxBootSize bytes
MaxBootSize == 3
\* the data entry of a nydus tar holds 0..MaxDataBlocks blocks of 512 bytes
MaxDataBlocks == 3
\* writes the caller makes into the sink Convert returns
MaxWrites == 2
\* bytes the builder writes into the fifo
MaxBlobBytes == 2
\* layers handed to Merge
MaxLayers == 2
\* Close calls made on one scoped closer
MaxCloses == 2
\* bytes of the source behind a readerAtToReader
MaxSrcLen == 3
\* length of the buffer handed to Read
MaxReadLen == 2
\* Read and Seek calls made on one readerAtToReader
MaxAdapterOps == 3

VARIABLES
    \* ---- OSSBackend.Push / push ----
    pc,          \* where Push is: "push", "exist", "split", "initiate",
                 \* "upload", "sleep", "done"
    backoff,     \* Push's loop-local backoff, in seconds
    now,         \* seconds slept so far (attempt durations are ignored)
    attempts,    \* the time at which each push attempt started
    sleeps,      \* the backoff sleeps taken, in order
    ctxDone,     \* the governing context is cancelled
    objExist,    \* the store holds the object key prefix + hex(digest)
    blobSize,    \* ra.Size() of the pushed blob, in MiB
    calls,       \* store calls issued by the current attempt, per operation
    existSeen,   \* what IsObjectExist answered in the current attempt
    chunks,      \* the chunk list of the current attempt
    imur,        \* the upload ID the current attempt initiated (0: none)
    tasks,       \* the errgroup's chunk tasks: "running", "ok", "err"
    partsChan,   \* the buffered channel of uploaded parts
    partsClosed, \* partsChan has been closed
    sessions,    \* the store's multipart sessions, indexed by upload ID
    parts,       \* the part list push drained from partsChan
    lastErr,     \* what the latest returned attempt returned
    result,      \* what Push returned
    exitReason,  \* which return of Push was taken
    \* ---- splitFileByPartSize as a pure function ----
    splitPc, splitIn, splitOut,
    \* ---- unpackBootstrapFromNydusTar ----
    lpc,         \* where the locator is: "seek", "parse", "seekTarget",
                 \* "copy", "done"
    blob,        \* the layout of the blob behind ra
    rdPos,       \* the seek reader's cursor
    cur,         \* the locator's cur
    hdr,         \* the header tar.Reader.Next returned
    target,      \* the bytes written to the target writer
    lerr,        \* what the locator returned
    \* ---- Convert and the sink it returns ----
    cpc,         \* where the Convert call is: "start", "mkdir", "sink",
                 \* "returned", "failed"
    outerErr,    \* Convert's variable err (types.go:238)
    convRet,     \* the error Convert returned
    workDir,     \* the working directory: "none", "exists", "removed"
    unpackPc,    \* the extraction goroutine: "off", "running", "ok",
                 \* "failed"
    unpackDone,  \* the number of values in the channel unpackDone
    prErr,       \* the error the pipe's read side was closed with
    pwClosed,    \* the pipe's write side has been closed
    sinkPc,      \* where the caller of the sink is: "off", "ready",
                 \* "inWrite", "waitUnpack", "openFifo", "copy", "returned"
    written,     \* the writes the extraction has read from the pipe
    closeRet,    \* what Close returned
    blobRc,      \* the fifo's read side: "none", "open", "closed"
    fifoW,       \* the fifo's write side: "unopened", "open", "closed"
    builderPc,   \* the builder goroutine: "off", "running", "exitOk",
                 \* "exitErr", "handled"
    produced,    \* bytes the builder has written into the fifo
    copied,      \* bytes io.Copy has written to dest
    \* ---- Merge ----
    mpc,         \* where Merge is: "start", "loop", "merge", "output",
                 \* "done"
    layers,      \* the digests of the caller's layers, in the caller's order
    sourceBootstrapPaths,  \* Merge's list of bootstrap paths
    mtasks,      \* the errgroup's extraction tasks: "running", "ok", "err"
    finished,    \* the layer indexes in the order their tasks finished
    toolCalls,   \* the invocations of the merge tool: the paths it was
                 \* given and the state of the tasks at that moment
    mdest,       \* what has been written to dest: "empty", "partial",
                 \* "full"
    mworkDir,    \* Merge's working directory: "none", "exists", "removed"
    mret,        \* what Merge returned
    \* ---- a second Push of the same digest, and Check ----
    peerPc,      \* where the second Push is: "exist", "initiate", "upload",
                 \* "done"
    peerImur,    \* the upload ID the second Push initiated (0: none)
    peerRet,     \* what the second Push returned
    checkSaw,    \* what the store answered to the latest Check
    checkRet,    \* what the latest Check returned
    \* ---- readCloser / writeCloser ----
    clPc,        \* where Close is: "call", "second", "done"
    clKind,      \* "readCloser" (types.go), "readCloserValue" (utils.go)
                 \* or "writeCloser"
    clUnderErr,  \* what the underlying Close returns
    clActionErr, \* what the action returns
    clCalls,     \* Close calls made so far
    clActionRuns,   \* times the action has run
    clUnderCloses,  \* times the underlying Close has run
    clRet,       \* what the latest Close returned
    \* ---- readerAtToReader ----
    raSrcLen,    \* the size of the source behind the adapter
    raPos,       \* the adapter's pos
    raOps,       \* Read and Seek calls made so far
    raLast       \* the latest call: what it was given, what it returned
                 \* and where the cursor was before it

pushVars == <<pc, backoff, now, attempts, sleeps, ctxDone, objExist, blobSize,
              calls, existSeen, chunks, imur, tasks, partsChan, partsClosed,
              sessions, parts, lastErr, result, exitReason>>
splitVars == <<splitPc, splitIn, splitOut>>
locVars == <<lpc, blob, rdPos, cur, hdr, target, lerr>>
convVars == <<cpc, outerErr, convRet, workDir, unpackPc, unpackDone, prErr,
              pwClosed, sinkPc, written, closeRet, blobRc, fifoW, builderPc,
              produced, copied>>
mergeVars == <<mpc, layers, sourceBootstrapPaths, mtasks, finished, toolCalls,
               mdest, mworkDir, mret>>
storeVars == <<peerPc, peerImur, peerRet, checkSaw, checkRet>>
closerVars == <<clPc, clKind, clUnderErr, clActionErr, clCalls, clActionRuns,
                clUnderCloses, clRet>>
adapterVars == <<raSrcLen, raPos, raOps, raLast>>
vars == <<pushVars, splitVars, locVars, convVars, mergeVars, storeVars,
          closerVars, adapterVars>>

\* what an action of one component leaves alone: the other components
besidesPush == <<splitVars, locVars, convVars, mergeVars, storeVars,
    closerVars, adapterVars>>
besidesSplit == <<pushVars, locVars, convVars, mergeVars, storeVars,
    closerVars, adapterVars>>
besidesLoc == <<pushVars, splitVars, convVars, mergeVars, storeVars,
    closerVars, adapterVars>>
besidesConv == <<pushVars, splitVars, locVars, mergeVars, storeVars,
    closerVars, adapterVars>>
besidesMerge == <<pushVars, splitVars, locVars, convVars, storeVars,
    closerVars, adapterVars>>
besidesStore == <<splitVars, locVars, convVars, mergeVars, closerVars,
                  adapterVars>>
besidesCloser == <<pushVars, splitVars, locVars, convVars, mergeVars,
                   storeVars, adapterVars>>
besidesAdapter == <<pushVars, splitVars, locVars, convVars, mergeVars,
                    storeVars, closerVars>>

(***************************************************************************)
(* Errors: the stage that wrapped the error, its cause, and the attempt    *)
(* that produced it.                                                       *)
(***************************************************************************)
Nil == [stage |-> "nil", cause |-> "nil", attempt |-> 0]
Err(stage, cause, n) == [stage |-> stage, cause |-> cause, attempt |-> n]

(***************************************************************************)
(* splitFileByPartSize (oss.go:82-109).                                    *)
(***************************************************************************)
chunkCount(size, chunkSize) == size \div chunkSize

tooManyParts(chunkN) == chunkN >= maxPartCount

\* an offset that is one chunk too far
chunkOffsetOneAhead(i, chunkSize) == (i + 1) * chunkSize

\* the offset of the chunk of 0-based index i (oss.go:96, 103)
chunkOffset(i, chunkSize) == i * chunkSize

splitFileByPartSize(size, chunkSize) ==
    IF chunkSize <= 0
    THEN [err |-> "chunkSize invalid", chunks |-> <<>>]
    ELSE LET chunkN == chunkCount(size, chunkSize) IN
         IF tooManyParts(chunkN)
         THEN [err |-> "Too many parts", chunks |-> <<>>]
         ELSE LET full == [i \in 1..chunkN |->
                              [Number |-> i,
                               Offset |-> chunkOffset(i - 1, chunkSize),
                               Size   |-> chunkSize]]
                  rest == size % chunkSize
              IN  [err |-> "nil",
                   chunks |->
                     IF rest > 0
                     THEN Append(full,
                                 [Number |-> Len(full) + 1,
                                  Offset |-> chunkOffset(Len(full), chunkSize),
                                  Size   |-> rest])
                     ELSE full]


(***************************************************************************)
(* OSSBackend.push (oss.go:112-170), one attempt, and OSSBackend.Push      *)
(* (oss.go:172-194), the retry loop around it.                             *)
(***************************************************************************)
NoCalls == [exist |-> 0, initiate |-> 0, upload |-> 0, complete |-> 0,
            abort |-> 0]

\* the blobs Push is given: 0..MaxChunks chunks, with and without a short
\* last chunk, and one blob of maxPartCount full chunks
PushBlobSizes ==
    {c * multipartChunkSize : c \in 0..MaxChunks}
      \cup {c * multipartChunkSize - 1 : c \in 1..MaxChunks}
      \cup {maxPartCount * multipartChunkSize}

\* the number of the attempt in progress
attemptNo == Len(attempts)

\* a push that goes on to upload although the key exists
existNeverShortCircuits(exist) == FALSE

\* oss.go:124  } else if exist { return nil }
existShortCircuits(exist) == exist

\* a push that initiates the session before it splits the blob
stepAfterInitiateFirst(step) ==
    CASE step = "exist"    -> "initiate"
      [] step = "initiate" -> "split"
      [] step = "split"    -> "spawn"

\* the order of the statements of push after the existence check:
\* split (128), initiate (133), spawn the chunk tasks (137-150)
stepAfter(step) ==
    CASE step = "exist"    -> "split"
      [] step = "split"    -> "initiate"
      [] step = "initiate" -> "spawn"

\* a channel without buffer
partsChanUnbuffered(cs) == 0

\* oss.go:137  make(chan oss.UploadPart, len(chunks))
partsChanCap(cs) == Len(cs)

\* a wait that returns while tasks are still running
waitReturnsAtOnce(t) == TRUE

\* errgroup.Wait returns once every task has returned (oss.go:152)
allTasksDone(t) == \A i \in DOMAIN t : t[i] \in {"ok", "err"}

\* a wait that drops the tasks' errors
gWaitIgnoresErrors(t) == FALSE

\* errgroup.Wait returns the first error of the tasks, nil if there is none
gWaitFailed(t) == \E i \in DOMAIN t : t[i] = "err"

\* an upload ID kept from the first session the store ever opened
uploadIDOfFirstSession(ss) == 1

\* oss.go:133  imur, err := b.bucket.InitiateMultipartUpload(...): the
\* upload ID is the one of the session the store has just opened
uploadIDFromInitiate(ss) == Len(ss) + 1

\* the store's record of a session opened by the given caller's attempt:
\* its state, the complete and abort calls made on it and the callers'
\* attempts that issued uploadPart, complete or abort on it
NewSession(owner, attempt) ==
    [owner |-> owner, attempt |-> attempt, state |-> "open",
     completeCalls |-> 0, abortCalls |-> 0, users |-> {}]

\* oss.go:178  case <-ctx.Done()
cancelObserved == ctxDone

\* a cap that lets the 8 s sleep happen
backoffExhaustedLate(b) == b > maxBackoff

\* oss.go:187  if backoff >= 8*time.Second { return err }
backoffExhausted(b) == b >= maxBackoff

\* oss.go:192  backoff *= 2
nextBackoff(b) == b * 2

\* cs.ReaderAt(ctx, desc) takes the context: once it is cancelled it may
\* fail because of it
ReaderAtCauses == IF ctxDone THEN {"io", "canceled"} ELSE {"io"}

\* push goes on to its next statement
Continue(next) ==
    /\ pc' = next
    /\ UNCHANGED <<lastErr, result, exitReason>>

\* push returns err to Push, which decides what follows (oss.go:176-189)
AttemptReturns(err) ==
    /\ lastErr' = err
    /\ IF err = Nil
       THEN pc' = "done" /\ result' = Nil /\ exitReason' = "success"
       ELSE IF cancelObserved
       THEN pc' = "done" /\ result' = err /\ exitReason' = "cancelled"
       ELSE IF backoffExhausted(backoff)
       THEN pc' = "done" /\ result' = err /\ exitReason' = "exhausted"
       ELSE pc' = "sleep" /\ UNCHANGED <<result, exitReason>>

\* oss.go:175 and 113-120: Push calls push, which opens the reader
PushBegin ==
    /\ pc = "push"
    /\ attempts' = Append(attempts, now)
    /\ calls' = NoCalls
    /\ existSeen' = "none"
    /\ chunks' = <<>>
    /\ imur' = 0
    /\ tasks' = <<>>
    /\ partsChan' = <<>>
    /\ partsClosed' = FALSE
    /\ parts' = <<>>
    /\ \E cause \in {"nil"} \cup ReaderAtCauses :
          IF cause = "nil"
          THEN Continue("exist")
          ELSE AttemptReturns(Err("get reader", cause, attemptNo + 1))
    /\ UNCHANGED <<backoff, now, sleeps, ctxDone, objExist, blobSize, sessions>>
    /\ UNCHANGED besidesPush

\* oss.go:122-126
IsObjectExist ==
    /\ pc = "exist"
    /\ calls' = [calls EXCEPT !.exist = @ + 1]
    /\ \E answered \in BOOLEAN :
          IF ~answered
          THEN /\ existSeen' = "err"
               /\ AttemptReturns(Err("check object existence", "transport",
                                     attemptNo))
          ELSE IF existShortCircuits(objExist)
          THEN /\ existSeen' = "yes"
               /\ AttemptReturns(Nil)
          ELSE /\ existSeen' = IF objExist THEN "yes" ELSE "no"
               /\ Continue(stepAfter("exist"))
    /\ UNCHANGED <<backoff, now, attempts, sleeps, ctxDone, objExist, blobSize,
                   chunks, imur, tasks, partsChan, partsClosed, sessions,
                   parts>>
    /\ UNCHANGED besidesPush

\* oss.go:128-131
Split ==
    /\ pc = "split"
    /\ LET r == splitFileByPartSize(blobSize, multipartChunkSize) IN
          IF r.err # "nil"
          THEN /\ AttemptReturns(Err("split blob by part num", "toomany",
                                     attemptNo))
               /\ UNCHANGED chunks
          ELSE /\ chunks' = r.chunks
               /\ Continue(stepAfter("split"))
    /\ UNCHANGED <<backoff, now, attempts, sleeps, ctxDone, objExist, blobSize,
                   calls, existSeen, imur, tasks, partsChan, partsClosed,
                   sessions, parts>>
    /\ UNCHANGED besidesPush

\* oss.go:133-136
InitiateMultipartUpload ==
    /\ pc = "initiate"
    /\ calls' = [calls EXCEPT !.initiate = @ + 1]
    /\ \E ok \in BOOLEAN :
          IF ok
          THEN /\ imur' = uploadIDFromInitiate(sessions)
               /\ sessions' = Append(sessions,
                                NewSession("push", attemptNo))
               /\ Continue(stepAfter("initiate"))
          ELSE /\ AttemptReturns(Err("initiate multipart upload", "transport",
                                     attemptNo))
               /\ UNCHANGED <<imur, sessions>>
    /\ UNCHANGED <<backoff, now, attempts, sleeps, ctxDone, objExist, blobSize,
                   existSeen, chunks, tasks, partsChan, partsClosed, parts>>
    /\ UNCHANGED besidesPush

\* oss.go:137-150: the parts channel and one task per chunk
SpawnTasks ==
    /\ pc = "spawn"
    /\ partsChan' = <<>>
    /\ partsClosed' = FALSE
    /\ tasks' = [i \in 1..Len(chunks) |-> "running"]
    /\ Continue("upload")
    /\ UNCHANGED <<backoff, now, attempts, sleeps, ctxDone, objExist, blobSize,
                   calls, existSeen, chunks, imur, sessions, parts>>
    /\ UNCHANGED besidesPush

\* oss.go:143-146: the UploadPart call of the task of chunk i returns
UploadPart(i) ==
    /\ pc = "upload"
    /\ tasks[i] = "running"
    /\ calls' = [calls EXCEPT !.upload = @ + 1]
    /\ \E ok \in BOOLEAN :
          tasks' = [tasks EXCEPT ![i] = IF ok THEN "sending" ELSE "err"]
    /\ sessions' = [sessions EXCEPT
                        ![imur].users = @ \cup {<<"push", attemptNo>>}]
    /\ Continue("upload")
    /\ UNCHANGED <<backoff, now, attempts, sleeps, ctxDone, objExist, blobSize,
                   existSeen, chunks, imur, partsChan, partsClosed, parts>>
    /\ UNCHANGED besidesPush

\* oss.go:147-148: partsChan <- p; return nil.  The send blocks while the
\* channel is full.
SendPart(i) ==
    /\ pc = "upload"
    /\ tasks[i] = "sending"
    /\ Len(partsChan) < partsChanCap(chunks)
    /\ partsChan' = Append(partsChan, chunks[i].Number)
    /\ tasks' = [tasks EXCEPT ![i] = "ok"]
    /\ Continue("upload")
    /\ UNCHANGED <<backoff, now, attempts, sleeps, ctxDone, objExist, blobSize,
                   calls, existSeen, chunks, imur, partsClosed, sessions,
                   parts>>
    /\ UNCHANGED besidesPush

\* oss.go:152-169: g.Wait, then abort, or drain the channel and complete
WaitAndFinish ==
    /\ pc = "upload"
    /\ allTasksDone(tasks)
    /\ partsClosed' = TRUE
    /\ IF gWaitFailed(tasks)
       THEN /\ calls' = [calls EXCEPT !.abort = @ + 1]
            /\ \E ok \in BOOLEAN :
                  sessions' = [sessions EXCEPT
                     ![imur].users = @ \cup {<<"push", attemptNo>>},
                     ![imur].abortCalls = @ + 1,
                     ![imur].state = IF ok THEN "aborted" ELSE @]
            /\ AttemptReturns(Err("uploading parts failed", "transport",
                                  attemptNo))
            /\ UNCHANGED <<partsChan, objExist, parts>>
       ELSE /\ calls' = [calls EXCEPT !.complete = @ + 1]
            /\ partsChan' = <<>>
            /\ parts' = partsChan
            /\ \E ok \in BOOLEAN :
                  /\ sessions' = [sessions EXCEPT
                        ![imur].users = @ \cup {<<"push", attemptNo>>},
                        ![imur].completeCalls = @ + 1,
                        ![imur].state = IF ok THEN "completed" ELSE @]
                  /\ IF ok
                     THEN /\ objExist' = TRUE
                          /\ AttemptReturns(Nil)
                     ELSE /\ UNCHANGED objExist
                          /\ AttemptReturns(Err("complete multipart upload",
                                                "transport", attemptNo))
    /\ UNCHANGED <<backoff, now, attempts, sleeps, ctxDone, blobSize,
                   existSeen, chunks, imur, tasks>>
    /\ UNCHANGED besidesPush

\* oss.go:190-192: time.Sleep(backoff); backoff *= 2
Sleep ==
    /\ pc = "sleep"
    /\ sleeps' = Append(sleeps, backoff)
    /\ now' = now + backoff
    /\ backoff' = nextBackoff(backoff)
    /\ pc' = "push"
    /\ UNCHANGED <<attempts, ctxDone, objExist, blobSize, calls, existSeen,
                   chunks, imur, tasks, partsChan, partsClosed, sessions,
                   parts, lastErr, result, exitReason>>
    /\ UNCHANGED besidesPush

\* the caller cancels the context Push was given
Cancel ==
    /\ pc \notin {"idle", "done"}
    /\ ~ctxDone
    /\ ctxDone' = TRUE
    /\ UNCHANGED <<pc, backoff, now, attempts, sleeps, objExist, blobSize,
                   calls, existSeen, chunks, imur, tasks, partsChan,
                   partsClosed, sessions, parts, lastErr, result, exitReason>>
    /\ UNCHANGED besidesPush

PushIdle ==
    /\ pc = "idle" /\ backoff = baseBackoff /\ now = 0
    /\ attempts = <<>> /\ sleeps = <<>> /\ ctxDone = FALSE
    /\ objExist = FALSE /\ blobSize = 0 /\ calls = NoCalls
    /\ existSeen = "none" /\ chunks = <<>> /\ imur = 0 /\ tasks = <<>>
    /\ partsChan = <<>> /\ partsClosed = FALSE /\ sessions = <<>>
    /\ parts = <<>> /\ lastErr = Nil /\ result = Nil /\ exitReason = "none"

SplitIdle ==
    /\ splitPc = "idle"
    /\ splitIn = [blobSize |-> 0, chunkSize |-> 0]
    /\ splitOut = [err |-> "none", chunks |-> <<>>]

LocIdle ==
    /\ lpc = "idle" /\ blob = <<>> /\ rdPos = 0 /\ cur = 0
    /\ hdr = [name |-> "", size |-> 0] /\ target = <<>> /\ lerr = "none"

ConvIdle ==
    /\ cpc = "idle" /\ outerErr = "nil" /\ convRet = "none"
    /\ workDir = "none" /\ unpackPc = "off" /\ unpackDone = 0
    /\ prErr = "none" /\ pwClosed = FALSE /\ sinkPc = "off" /\ written = 0
    /\ closeRet = "none" /\ blobRc = "none" /\ fifoW = "unopened"
    /\ builderPc = "off" /\ produced = 0 /\ copied = 0

MergeIdle ==
    /\ mpc = "idle" /\ layers = <<>> /\ sourceBootstrapPaths = <<>>
    /\ mtasks = <<>> /\ finished = <<>> /\ toolCalls = <<>>
    /\ mdest = "empty" /\ mworkDir = "none" /\ mret = "none"

NoCheck == [id |-> "", err |-> "none"]

StoreIdle ==
    /\ peerPc = "idle" /\ peerImur = 0 /\ peerRet = "none"
    /\ checkSaw = NoCheck /\ checkRet = NoCheck

CloserIdle ==
    /\ clPc = "idle" /\ clKind = "none" /\ clUnderErr = "nil"
    /\ clActionErr = "nil" /\ clCalls = 0 /\ clActionRuns = 0
    /\ clUnderCloses = 0 /\ clRet = "none"

NoCall == [op |-> "none", arg |-> 0, whence |-> "none", n |-> 0,
           err |-> "none", before |-> 0]

AdapterIdle ==
    /\ raSrcLen = 0 /\ raPos = 0 /\ raOps = 0 /\ raLast = NoCall

\* Push(ctx, cs, desc) has just been called: backoff := time.Second
PushInit ==
    /\ pc = "push" /\ backoff = baseBackoff /\ now = 0
    /\ attempts = <<>> /\ sleeps = <<>> /\ ctxDone = FALSE
    /\ objExist \in BOOLEAN /\ blobSize \in PushBlobSizes /\ calls = NoCalls
    /\ existSeen = "none" /\ chunks = <<>> /\ imur = 0 /\ tasks = <<>>
    /\ partsChan = <<>> /\ partsClosed = FALSE /\ sessions = <<>>
    /\ parts = <<>> /\ lastErr = Nil /\ result = Nil /\ exitReason = "none"

Init == PushInit /\ SplitIdle /\ LocIdle /\ ConvIdle /\ MergeIdle
        /\ StoreIdle
        /\ CloserIdle
        /\ AdapterIdle

Next ==
    \/ PushBegin
    \/ IsObjectExist
    \/ Split
    \/ InitiateMultipartUpload
    \/ SpawnTasks
    \/ \E i \in DOMAIN tasks : UploadPart(i)
    \/ \E i \in DOMAIN tasks : SendPart(i)
    \/ WaitAndFinish
    \/ Sleep
    \/ Cancel

Spec == Init /\ [][Next]_vars

(***************************************************************************)
(* splitFileByPartSize applied to inputs drawn from bounded sets: every    *)
(* small blob size and chunk size, and the sizes around the part ceiling.  *)
(***************************************************************************)
SplitInputs ==
    {[blobSize |-> S, chunkSize |-> C] :
        S \in 0..MaxSplitBlobSize, C \in (-1)..MaxSplitChunkSize}
      \cup {[blobSize |-> (maxPartCount - 1) * C + d, chunkSize |-> C] :
               C \in 1..MaxSplitChunkSize, d \in (-1)..1}
      \cup {[blobSize |-> maxPartCount * C + d, chunkSize |-> C] :
               C \in 1..MaxSplitChunkSize, d \in (-1)..1}

SplitInit ==
    /\ splitPc = "call"
    /\ splitIn \in SplitInputs
    /\ splitOut = [err |-> "none", chunks |-> <<>>]

SplitCall ==
    /\ splitPc = "call"
    /\ splitOut' = splitFileByPartSize(splitIn.blobSize, splitIn.chunkSize)
    /\ splitPc' = "done"
    /\ UNCHANGED <<splitIn, besidesSplit>>

InitSplit == PushIdle /\ SplitInit /\ LocIdle /\ ConvIdle /\ MergeIdle
             /\ StoreIdle
             /\ CloserIdle
             /\ AdapterIdle

NextSplit == SplitCall

SpecSplit == InitSplit /\ [][NextSplit]_vars

(***************************************************************************)
(* unpackBootstrapFromNydusTar (types.go:182-221).                         *)
(*                                                                         *)
(* A blob is a sequence of segments: runs of data bytes and 512-byte tar   *)
(* headers.  Its byte at an offset is <<kind, segment, index in segment>>, *)
(* so that a block parses as a tar header only if it is, byte for byte,    *)
(* one whole header, and copied bytes are told apart by where they lay.    *)
(***************************************************************************)
\* types.go:119
bootstrapNameInTar == "image.boot"

DataSeg(n) == [kind |-> "data", len |-> n, name |-> "", size |-> 0]
HdrSeg(nm, sz) == [kind |-> "hdr", len |-> headerSize, name |-> nm, size |-> sz]

RECURSIVE SegStart(_, _)
\* the offset at which segment k of blob b starts
SegStart(b, k) == IF k <= 1 THEN 0 ELSE SegStart(b, k - 1) + b[k - 1].len

\* ra.Size()
BlobLen(b) == SegStart(b, Len(b) + 1)

\* the byte of b at offset off, 0 <= off < BlobLen(b)
ByteAt(b, off) ==
    LET k == CHOOSE k \in DOMAIN b :
                 SegStart(b, k) <= off /\ off < SegStart(b, k) + b[k].len
    IN  <<b[k].kind, k, off - SegStart(b, k)>>

\* content.ReaderAt.ReadAt(p, off) with len(p) = n: the number of bytes it
\* returns (fewer than n at the end of the blob, none at a negative offset)
ReadAtCount(b, off, n) ==
    IF off < 0 \/ off >= BlobLen(b) THEN 0
    ELSE IF off + n > BlobLen(b) THEN BlobLen(b) - off
    ELSE n

\* the cursor after Read(p) with len(p) = n (types.go:438-442)
readAdvance(pos, n) == pos + n

\* Seek(offset, io.SeekCurrent) (types.go:448-449)
seekCurrent(pos, offset) == pos + offset

\* Seek(offset, io.SeekStart) of the reader newSeekReader returns
seekStart(pos, offset) == offset

\* tar.Reader.Next on the reader at pos: the header block is read whole and
\* parsed; anything but one whole header is an error
tarNext(b, pos) ==
    IF ReadAtCount(b, pos, headerSize) < headerSize
    THEN [err |-> TRUE, name |-> "", size |-> 0]
    ELSE IF \E k \in DOMAIN b :
               /\ b[k].kind = "hdr"
               /\ \A j \in 0..(headerSize - 1) :
                     ByteAt(b, pos + j) = <<"hdr", k, j>>
    THEN LET k == CHOOSE k \in DOMAIN b :
                     b[k].kind = "hdr" /\ ByteAt(b, pos) = <<"hdr", k, 0>>
         IN  [err |-> FALSE, name |-> b[k].name, size |-> b[k].size]
    ELSE [err |-> TRUE, name |-> "", size |-> 0]

\* a data start that forgets the entry's size is counted from the header
targetOffsetPastHeader(c, size) == c - size - headerSize

\* types.go:202  targetOffset := cur - hdr.Size
targetOffset(c, size) == c - size

\* io.CopyN(target, reader, n) from pos: the bytes it writes
copyBytes(b, pos, n) ==
    [j \in 1..ReadAtCount(b, pos, n) |-> ByteAt(b, pos + j - 1)]

\* the blobs the locator is given: a data entry of 0..MaxDataBlocks blocks,
\* with or without its own header, followed by a last entry of
\* 0..MaxBootSize bytes under the bootstrap name or another name, or by
\* nothing
DataEntries ==
    {<<DataSeg(k * headerSize)>> : k \in 0..MaxDataBlocks}
      \cup {<<DataSeg(k * headerSize), HdrSeg("image.blob", k * headerSize)>> :
               k \in 0..MaxDataBlocks}

LastEntries ==
    {<<DataSeg(m), HdrSeg(nm, m)>> :
        m \in 0..MaxBootSize, nm \in {bootstrapNameInTar, "image.meta"}}
      \cup {<<>>}

\* what may follow the last entry: nothing, one block that is not a tar
\* header, or a single stray byte (a truncated block)
TrailingBlocks == {<<>>, <<DataSeg(headerSize)>>, <<DataSeg(1)>>}

Blobs == {d \o t \o g : d \in DataEntries, t \in LastEntries,
                         g \in TrailingBlocks}

\* types.go:183-184
LocInit ==
    /\ lpc = "seek"
    /\ blob \in Blobs
    /\ cur = BlobLen(blob)
    /\ rdPos = 0
    /\ hdr = [name |-> "", size |-> 0]
    /\ target = <<>>
    /\ lerr = "none"

\* types.go:190-193
LocSeekHeader ==
    /\ lpc = "seek"
    /\ rdPos' = seekCurrent(rdPos, cur - headerSize)
    /\ cur' = rdPos'
    /\ lpc' = "parse"
    /\ UNCHANGED <<blob, hdr, target, lerr, besidesLoc>>

\* types.go:195-217
LocParseHeader ==
    /\ lpc = "parse"
    /\ LET h == tarNext(blob, rdPos) IN
          /\ rdPos' = readAdvance(rdPos, headerSize)
          /\ IF h.err
             THEN /\ lerr' = "parse tar header"
                  /\ lpc' = "done"
                  /\ UNCHANGED hdr
             ELSE /\ hdr' = [name |-> h.name, size |-> h.size]
                  /\ IF h.name = bootstrapNameInTar
                     THEN lpc' = "seekTarget" /\ UNCHANGED lerr
                     ELSE IF cur = h.size
                     THEN lpc' = "done" /\ lerr' = "can't find bootstrap"
                     ELSE lpc' = "seek" /\ UNCHANGED lerr
    /\ UNCHANGED <<blob, cur, target, besidesLoc>>

\* types.go:202-206
LocSeekTarget ==
    /\ lpc = "seekTarget"
    /\ rdPos' = seekStart(rdPos, targetOffset(cur, hdr.size))
    /\ lpc' = "copy"
    /\ UNCHANGED <<blob, cur, hdr, target, lerr, besidesLoc>>

\* types.go:208-212
LocCopy ==
    /\ lpc = "copy"
    /\ target' = target \o copyBytes(blob, rdPos, hdr.size)
    /\ rdPos' = readAdvance(rdPos, hdr.size)
    /\ lerr' = IF Len(copyBytes(blob, rdPos, hdr.size)) = hdr.size
               THEN "nil" ELSE "copy target to reader"
    /\ lpc' = "done"
    /\ UNCHANGED <<blob, cur, hdr, besidesLoc>>

InitLocator == PushIdle /\ SplitIdle /\ LocInit /\ ConvIdle /\ MergeIdle
               /\ StoreIdle
               /\ CloserIdle
               /\ AdapterIdle

NextLocator ==
    \/ LocSeekHeader
    \/ LocParseHeader
    \/ LocSeekTarget
    \/ LocCopy

SpecLocator == InitLocator /\ [][NextLocator]_vars

(***************************************************************************)
(* Convert (types.go:237-304) and the sink it returns.                     *)
(*                                                                         *)
(* Four threads of control: the Convert call, the extraction goroutine     *)
(* reading the pipe, the caller writing into the sink and closing it, and  *)
(* the builder goroutine started by the close action, whose subprocess     *)
(* writes the blob into a fifo that the close action copies to dest.       *)
(***************************************************************************)
\* the pipe keeps the first error it was closed with (io.Pipe)
closeWithError(prev, err) == IF prev = "none" THEN err ELSE prev

\* types.go:242-246  defer func() { if err != nil { os.RemoveAll(workDir) } }()
deferredCleanup(err, wd) == IF err # "nil" THEN "removed" ELSE wd

\* Convert(ctx, dest, opt) has just been called
ConvInit ==
    /\ cpc = "start" /\ outerErr = "nil" /\ convRet = "none"
    /\ workDir = "none" /\ unpackPc = "off" /\ unpackDone = 0
    /\ prErr = "none" /\ pwClosed = FALSE /\ sinkPc = "off" /\ written = 0
    /\ closeRet = "none" /\ blobRc = "none" /\ fifoW = "unopened"
    /\ builderPc = "off" /\ produced = 0 /\ copied = 0

\* types.go:238-241  workDir, err := ioutil.TempDir(...)
ConvTempDir ==
    /\ cpc = "start"
    /\ \/ /\ workDir' = "exists"
          /\ outerErr' = "nil"
          /\ cpc' = "mkdir"
          /\ UNCHANGED convRet
       \/ /\ outerErr' = "create work directory"
          /\ convRet' = "create work directory"
          /\ cpc' = "failed"
          /\ UNCHANGED workDir
    /\ UNCHANGED <<unpackPc, unpackDone, prErr, pwClosed, sinkPc, written,
                   closeRet, blobRc, fifoW, builderPc, produced, copied>>
    /\ UNCHANGED besidesConv

\* types.go:248-251  if err := os.MkdirAll(sourceDir, 0755); err != nil:
\* the error is bound to a new err, local to the if statement, and the
\* deferred function runs on the return with Convert's own err
ConvMkdirAll ==
    /\ cpc = "mkdir"
    /\ \/ /\ cpc' = "sink"
          /\ UNCHANGED <<convRet, workDir>>
       \/ /\ convRet' = "create source directory"
          /\ workDir' = deferredCleanup(outerErr, workDir)
          /\ cpc' = "failed"
    /\ UNCHANGED <<outerErr, unpackPc, unpackDone, prErr, pwClosed, sinkPc,
                   written, closeRet, blobRc, fifoW, builderPc, produced,
                   copied>>
    /\ UNCHANGED besidesConv

\* types.go:253-264, 303: the pipe and the channel are made, the
\* extraction goroutine is started and the sink is returned
ConvReturnSink ==
    /\ cpc = "sink"
    /\ unpackPc' = "running"
    /\ sinkPc' = "ready"
    /\ convRet' = "nil"
    /\ workDir' = deferredCleanup(outerErr, workDir)
    /\ cpc' = "returned"
    /\ UNCHANGED <<outerErr, unpackDone, prErr, pwClosed, written, closeRet,
                   blobRc, fifoW, builderPc, produced, copied>>
    /\ UNCHANGED besidesConv

\* types.go:257, 261: unpackOciTar returned nil; unpackDone <- true (the
\* channel has room for the one value)
UnpackOk ==
    /\ unpackPc = "running"
    /\ unpackDone' = unpackDone + 1
    /\ unpackPc' = "ok"
    /\ UNCHANGED <<cpc, outerErr, convRet, workDir, prErr, pwClosed, sinkPc,
                   written, closeRet, blobRc, fifoW, builderPc, produced,
                   copied>>
    /\ UNCHANGED besidesConv

\* types.go:257-260: unpackOciTar returned an error; the pipe is closed
\* with it and the goroutine returns
UnpackFail ==
    /\ unpackPc = "running"
    /\ prErr' = closeWithError(prErr, "unpack")
    /\ unpackPc' = "failed"
    /\ UNCHANGED <<cpc, outerErr, convRet, workDir, unpackDone, pwClosed,
                   sinkPc, written, closeRet, blobRc, fifoW, builderPc,
                   produced, copied>>
    /\ UNCHANGED besidesConv

\* the caller calls Write on the sink (the embedded pipe writer)
SinkWriteBegin ==
    /\ sinkPc = "ready"
    /\ written < MaxWrites
    /\ sinkPc' = "inWrite"
    /\ UNCHANGED <<cpc, outerErr, convRet, workDir, unpackPc, unpackDone,
                   prErr, pwClosed, written, closeRet, blobRc, fifoW,
                   builderPc, produced, copied>>
    /\ UNCHANGED besidesConv

\* a Write on the pipe returns when the extraction has read its bytes
PipeTransfer ==
    /\ sinkPc = "inWrite"
    /\ unpackPc = "running"
    /\ prErr = "none"
    /\ written' = written + 1
    /\ sinkPc' = "ready"
    /\ UNCHANGED <<cpc, outerErr, convRet, workDir, unpackPc, unpackDone,
                   prErr, pwClosed, closeRet, blobRc, fifoW, builderPc,
                   produced, copied>>
    /\ UNCHANGED besidesConv

\* a Write on a pipe whose read side was closed returns that error
SinkWriteFails ==
    /\ sinkPc = "inWrite"
    /\ prErr # "none"
    /\ sinkPc' = "ready"
    /\ UNCHANGED <<cpc, outerErr, convRet, workDir, unpackPc, unpackDone,
                   prErr, pwClosed, written, closeRet, blobRc, fifoW,
                   builderPc, produced, copied>>
    /\ UNCHANGED besidesConv

\* types.go:419-420: Close calls the action, which starts by waiting for
\* the extraction (types.go:272)
CloseBegin ==
    /\ sinkPc = "ready"
    /\ sinkPc' = "waitUnpack"
    /\ UNCHANGED <<cpc, outerErr, convRet, workDir, unpackPc, unpackDone,
                   prErr, pwClosed, written, closeRet, blobRc, fifoW,
                   builderPc, produced, copied>>
    /\ UNCHANGED besidesConv

\* a receive that does not wait for a value
recvWithoutWaiting(n) == TRUE

\* a receive on the channel proceeds when the channel holds a value
recvReady(n) == n > 0

\* types.go:272  <-unpackDone
CloseRecvUnpackDone ==
    /\ sinkPc = "waitUnpack"
    /\ recvReady(unpackDone)
    /\ unpackDone' = unpackDone - 1
    /\ sinkPc' = "openFifo"
    /\ UNCHANGED <<cpc, outerErr, convRet, workDir, unpackPc, prErr, pwClosed,
                   written, closeRet, blobRc, fifoW, builderPc, produced,
                   copied>>
    /\ UNCHANGED besidesConv

\* the action returns err: its deferred calls close the fifo's read side
\* (types.go:279) and remove the working directory (types.go:265-267);
\* Close returns the action's error, or closes the pipe's write side and
\* returns what that returns, nil (types.go:419-424)
CloseReturns(err) ==
    /\ workDir' = "removed"
    /\ blobRc' = IF blobRc = "open" THEN "closed" ELSE blobRc
    /\ pwClosed' = (err = "nil")
    /\ closeRet' = err
    /\ sinkPc' = "returned"

\* types.go:274-294: the fifo is opened for reading and the builder
\* goroutine is started
CloseOpenFifo ==
    /\ sinkPc = "openFifo"
    /\ \/ /\ blobRc' = "open"
          /\ builderPc' = "running"
          /\ sinkPc' = "copy"
          /\ UNCHANGED <<workDir, pwClosed, closeRet>>
       \/ /\ CloseReturns("create fifo file")
          /\ UNCHANGED builderPc
    /\ UNCHANGED <<cpc, outerErr, convRet, unpackPc, unpackDone, prErr,
                   written, fifoW, produced, copied>>
    /\ UNCHANGED besidesConv

\* types.go:296-300  io.Copy(dest, blobRc): a Read on the fifo waits for a
\* writer to open it, fails once the read side is closed, returns the
\* bytes written so far and reports the end of the stream when the writer
\* has closed; a failed Write to dest ends the copy
CopyStep ==
    /\ sinkPc = "copy"
    /\ IF blobRc = "closed"
       THEN /\ CloseReturns("pack nydus tar")
            /\ UNCHANGED copied
       ELSE IF fifoW # "unopened" /\ copied < produced
       THEN \/ /\ copied' = copied + 1
               /\ UNCHANGED <<workDir, blobRc, pwClosed, closeRet, sinkPc>>
            \/ /\ CloseReturns("pack nydus tar")
               /\ UNCHANGED copied
       ELSE /\ fifoW = "closed"
            /\ CloseReturns("nil")
            /\ UNCHANGED copied
    /\ UNCHANGED <<cpc, outerErr, convRet, unpackPc, unpackDone, prErr,
                   written, fifoW, builderPc, produced>>
    /\ UNCHANGED besidesConv

\* the builder subprocess opens the fifo at BlobPath for writing
BuilderOpenFifo ==
    /\ builderPc = "running"
    /\ fifoW = "unopened"
    /\ fifoW' = "open"
    /\ UNCHANGED <<cpc, outerErr, convRet, workDir, unpackPc, unpackDone,
                   prErr, pwClosed, sinkPc, written, closeRet, blobRc,
                   builderPc, produced, copied>>
    /\ UNCHANGED besidesConv

\* the builder subprocess writes a byte of the blob
BuilderWrite ==
    /\ builderPc = "running"
    /\ fifoW = "open"
    /\ produced < MaxBlobBytes
    /\ produced' = produced + 1
    /\ UNCHANGED <<cpc, outerErr, convRet, workDir, unpackPc, unpackDone,
                   prErr, pwClosed, sinkPc, written, closeRet, blobRc, fifoW,
                   builderPc, copied>>
    /\ UNCHANGED besidesConv

\* types.go:282-290: the subprocess exits with status 0 after writing the
\* blob; its end of the fifo is closed and tool.Convert returns nil
BuilderExitOk ==
    /\ builderPc = "running"
    /\ fifoW = "open"
    /\ fifoW' = "closed"
    /\ builderPc' = "exitOk"
    /\ UNCHANGED <<cpc, outerErr, convRet, workDir, unpackPc, unpackDone,
                   prErr, pwClosed, sinkPc, written, closeRet, blobRc,
                   produced, copied>>
    /\ UNCHANGED besidesConv

\* types.go:282-290: the subprocess fails, at any point; its end of the
\* fifo, if it had opened it, is closed and tool.Convert returns an error
BuilderExitErr ==
    /\ builderPc = "running"
    /\ fifoW' = IF fifoW = "open" THEN "closed" ELSE fifoW
    /\ builderPc' = "exitErr"
    /\ UNCHANGED <<cpc, outerErr, convRet, workDir, unpackPc, unpackDone,
                   prErr, pwClosed, sinkPc, written, closeRet, blobRc,
                   produced, copied>>
    /\ UNCHANGED besidesConv

\* types.go:290-293: the goroutine closes the pipe with the builder's
\* error and closes the fifo's read side
BuilderErrHandler ==
    /\ builderPc = "exitErr"
    /\ prErr' = closeWithError(prErr, "convert")
    /\ blobRc' = "closed"
    /\ builderPc' = "handled"
    /\ UNCHANGED <<cpc, outerErr, convRet, workDir, unpackPc, unpackDone,
                   pwClosed, sinkPc, written, closeRet, fifoW, produced,
                   copied>>
    /\ UNCHANGED besidesConv

InitConvert == PushIdle /\ SplitIdle /\ LocIdle /\ ConvInit /\ MergeIdle
               /\ StoreIdle
               /\ CloserIdle
               /\ AdapterIdle

NextConvert ==
    \/ ConvTempDir
    \/ ConvMkdirAll
    \/ ConvReturnSink
    \/ UnpackOk
    \/ UnpackFail
    \/ SinkWriteBegin
    \/ PipeTransfer
    \/ SinkWriteFails
    \/ CloseBegin
    \/ CloseRecvUnpackDone
    \/ CloseOpenFifo
    \/ CopyStep
    \/ BuilderOpenFifo
    \/ BuilderWrite
    \/ BuilderExitOk
    \/ BuilderExitErr
    \/ BuilderErrHandler

SpecConvert == InitConvert /\ [][NextConvert]_vars

(***************************************************************************)
(* Merge (types.go:307-375): one extraction task per layer in an errgroup, *)
(* a wait for all of them, one invocation of the merge tool, and the copy  *)
(* of the merged bootstrap to dest.                                        *)
(***************************************************************************)
\* a digest is an algorithm and the hex encoding of the hash
Digest(h) == [algo |-> "sha256", hex |-> h]

\* digest.Digest.Hex()
Hex(d) == d.hex

\* filepath.Join(workDir, name)
joinWorkDir(name) == [dir |-> "workDir", name |-> name]

\* a path list indexed from the end of the layer list
bootstrapPathMirrored(ls, idx) == joinWorkDir(Hex(ls[Len(ls) + 1 - idx]))

\* types.go:317  filepath.Join(workDir, layers[idx].Digest.Hex())
bootstrapPath(ls, idx) == joinWorkDir(Hex(ls[idx]))

\* types.go:338  eg.Wait() returns once every task has returned
egWaitReturns(t) == \A i \in DOMAIN t : t[i] \in {"ok", "err"}

\* a wait that drops the tasks' errors
egWaitDropsError(t) == FALSE

\* types.go:338  eg.Wait() returns the first error of the tasks, if any
egWaitError(t) == \E i \in DOMAIN t : t[i] = "err"

RECURSIVE SeqsUpTo(_, _)
\* the sequences over S of length at most n
SeqsUpTo(S, n) ==
    IF n = 0 THEN {<<>>}
    ELSE SeqsUpTo(S, n - 1)
           \cup {Append(q, x) : q \in {r \in SeqsUpTo(S, n - 1) : Len(r) = n - 1},
                                x \in S}

\* the layer lists Merge is given: up to MaxLayers layers, distinct or
\* repeated
LayerLists == SeqsUpTo({Digest("aa"), Digest("bb"), Digest("cc")}, MaxLayers)

\* Merge(ctx, layers, dest, opt) has just been called
MergeInit ==
    /\ mpc = "start" /\ layers \in LayerLists /\ sourceBootstrapPaths = <<>>
    /\ mtasks = <<>> /\ finished = <<>> /\ toolCalls = <<>>
    /\ mdest = "empty" /\ mworkDir = "none" /\ mret = "none"

\* Merge returns err; the deferred os.RemoveAll(workDir) runs (types.go:312)
MergeReturns(err) ==
    /\ mret' = err
    /\ mworkDir' = "removed"
    /\ mpc' = "done"

\* types.go:308-315
MergeTempDir ==
    /\ mpc = "start"
    /\ \/ /\ mworkDir' = "exists"
          /\ mpc' = "loop"
          /\ UNCHANGED mret
       \/ /\ mret' = "create work directory"
          /\ mpc' = "done"
          /\ UNCHANGED mworkDir
    /\ UNCHANGED <<layers, sourceBootstrapPaths, mtasks, finished, toolCalls,
                   mdest>>
    /\ UNCHANGED besidesMerge

\* types.go:316-318: one iteration of the loop appends the layer's path
\* and starts the layer's task
MergeSpawn ==
    /\ mpc = "loop"
    /\ Len(mtasks) < Len(layers)
    /\ LET idx == Len(mtasks) + 1 IN
          /\ sourceBootstrapPaths' =
                 Append(sourceBootstrapPaths, bootstrapPath(layers, idx))
          /\ mtasks' = Append(mtasks, "running")
    /\ UNCHANGED <<mpc, layers, finished, toolCalls, mdest, mworkDir, mret>>
    /\ UNCHANGED besidesMerge

\* types.go:319-334: the task of layer i creates the layer's bootstrap
\* file and extracts the bootstrap into it, or fails at either step
ExtractTask(i) ==
    /\ mtasks[i] = "running"
    /\ \E outcome \in {"ok", "err"} : mtasks' = [mtasks EXCEPT ![i] = outcome]
    /\ finished' = Append(finished, i)
    /\ UNCHANGED <<mpc, layers, sourceBootstrapPaths, toolCalls, mdest,
                   mworkDir, mret>>
    /\ UNCHANGED besidesMerge

\* types.go:338-340
MergeWait ==
    /\ mpc = "loop"
    /\ Len(mtasks) = Len(layers)
    /\ egWaitReturns(mtasks)
    /\ IF egWaitError(mtasks)
       THEN MergeReturns("unpack all bootstraps")
       ELSE mpc' = "merge" /\ UNCHANGED <<mret, mworkDir>>
    /\ UNCHANGED <<layers, sourceBootstrapPaths, mtasks, finished, toolCalls,
                   mdest>>
    /\ UNCHANGED besidesMerge

\* types.go:344-353  tool.Merge(...)
MergeTool ==
    /\ mpc = "merge"
    /\ toolCalls' = Append(toolCalls, [paths |-> sourceBootstrapPaths,
                                       tasks |-> mtasks])
    /\ \/ mpc' = "output" /\ UNCHANGED <<mret, mworkDir>>
       \/ MergeReturns("merge bootstrap")
    /\ UNCHANGED <<layers, sourceBootstrapPaths, mtasks, finished, mdest>>
    /\ UNCHANGED besidesMerge

\* types.go:355-374: the merged bootstrap is opened, as a tar stream or as
\* it is, and copied to dest
MergeOutput ==
    /\ mpc = "output"
    /\ \/ /\ MergeReturns("open merged bootstrap")
          /\ UNCHANGED mdest
       \/ /\ MergeReturns("copy merged bootstrap")
          /\ mdest' \in {"empty", "partial"}
       \/ /\ MergeReturns("nil")
          /\ mdest' = "full"
    /\ UNCHANGED <<layers, sourceBootstrapPaths, mtasks, finished, toolCalls>>
    /\ UNCHANGED besidesMerge

InitMerge == PushIdle /\ SplitIdle /\ LocIdle /\ ConvIdle /\ MergeInit
             /\ StoreIdle
             /\ CloserIdle
             /\ AdapterIdle

NextMerge ==
    \/ MergeTempDir
    \/ MergeSpawn
    \/ \E i \in DOMAIN mtasks : ExtractTask(i)
    \/ MergeWait
    \/ MergeTool
    \/ MergeOutput

SpecMerge == InitMerge /\ [][NextMerge]_vars

(***************************************************************************)
(* The object store shared by concurrent callers: the Push above, a second *)
(* Push of the same digest by another caller (one attempt of push,         *)
(* oss.go:112-170, taken store call by store call) and Check               *)
(* (oss.go:196-205).  The context is not cancelled here.                   *)
(***************************************************************************)
\* the digest of the pushed blob, and a digest nobody pushes
pushedDigest == Digest("aa")
otherDigest == Digest("bb")

\* the error the store's existence query can fail with
StoreErrors == {"timeout"}

\* errdefs.ErrNotFound
ErrNotFound == "not found"

\* bucket.IsObjectExist(objectPrefix + hex(digest))
keyExists(d) == d = pushedDigest /\ objExist

\* a query that reports a failed existence query as absence
checkResultHidesError(d, storeErr, exist) ==
    IF storeErr = "nil" /\ exist
    THEN [id |-> Hex(d), err |-> "nil"]
    ELSE [id |-> "", err |-> ErrNotFound]

\* oss.go:197-204
checkResult(d, storeErr, exist) ==
    IF storeErr # "nil" THEN [id |-> "", err |-> storeErr]
    ELSE IF exist THEN [id |-> Hex(d), err |-> "nil"]
    ELSE [id |-> "", err |-> ErrNotFound]

\* the second Push has just been called, like the first
StoreInit ==
    /\ peerPc = "exist" /\ peerImur = 0 /\ peerRet = "none"
    /\ checkSaw = NoCheck /\ checkRet = NoCheck

pushVarsButStore ==
    <<pc, backoff, now, attempts, sleeps, ctxDone, blobSize, calls, existSeen,
      chunks, imur, tasks, partsChan, partsClosed, parts, lastErr, result,
      exitReason>>

\* oss.go:122-126, in the second Push
PeerIsObjectExist ==
    /\ peerPc = "exist"
    /\ \E answered \in BOOLEAN :
          IF ~answered
          THEN peerPc' = "done" /\ peerRet' = "check object existence"
          ELSE IF existShortCircuits(objExist)
          THEN peerPc' = "done" /\ peerRet' = "nil"
          ELSE peerPc' = "initiate" /\ UNCHANGED peerRet
    /\ UNCHANGED <<peerImur, checkSaw, checkRet, objExist, sessions>>
    /\ UNCHANGED <<pushVarsButStore, besidesStore>>

\* oss.go:128-136, in the second Push
PeerInitiate ==
    /\ peerPc = "initiate"
    /\ \E ok \in BOOLEAN :
          IF ok
          THEN /\ peerImur' = uploadIDFromInitiate(sessions)
               /\ sessions' = Append(sessions, NewSession("peer", 1))
               /\ peerPc' = "upload"
               /\ UNCHANGED peerRet
          ELSE /\ peerPc' = "done"
               /\ peerRet' = "initiate multipart upload"
               /\ UNCHANGED <<peerImur, sessions>>
    /\ UNCHANGED <<checkSaw, checkRet, objExist>>
    /\ UNCHANGED <<pushVarsButStore, besidesStore>>

\* oss.go:137-169, in the second Push: the parts are uploaded and the
\* session is completed, or a part fails and the session is aborted, or
\* the complete or the abort call fails and leaves the session open
PeerUploadAndFinish ==
    /\ peerPc = "upload"
    /\ \E outcome \in {"completed", "aborted", "open"} :
          /\ sessions' = [sessions EXCEPT
                ![peerImur].users = @ \cup {<<"peer", 1>>},
                ![peerImur].state = outcome,
                ![peerImur].completeCalls =
                    IF outcome = "completed" THEN @ + 1 ELSE @,
                ![peerImur].abortCalls =
                    IF outcome = "aborted" THEN @ + 1 ELSE @]
          /\ objExist' = (objExist \/ outcome = "completed")
          /\ peerRet' = IF outcome = "completed" THEN "nil"
                        ELSE "uploading parts failed"
    /\ peerPc' = "done"
    /\ UNCHANGED <<peerImur, checkSaw, checkRet>>
    /\ UNCHANGED <<pushVarsButStore, besidesStore>>

\* oss.go:196-205  Check(blobDigest), called by anyone at any time
Check(blobDigest) ==
    /\ \E storeErr \in {"nil"} \cup StoreErrors :
          /\ checkSaw' = [id |-> IF keyExists(blobDigest)
                                 THEN Hex(blobDigest) ELSE "",
                          err |-> storeErr]
          /\ checkRet' = checkResult(blobDigest, storeErr,
                                     keyExists(blobDigest))
    /\ UNCHANGED <<peerPc, peerImur, peerRet>>
    /\ UNCHANGED <<pushVars, besidesStore>>

\* the blob pushed by the two callers: one chunk
StoreBlobSizes == {multipartChunkSize}

InitStore ==
    /\ PushInit /\ blobSize \in StoreBlobSizes
    /\ SplitIdle /\ LocIdle /\ ConvIdle /\ MergeIdle /\ StoreInit
    /\ CloserIdle
    /\ AdapterIdle

NextStore ==
    \/ PushBegin
    \/ IsObjectExist
    \/ Split
    \/ InitiateMultipartUpload
    \/ SpawnTasks
    \/ \E i \in DOMAIN tasks : UploadPart(i)
    \/ \E i \in DOMAIN tasks : SendPart(i)
    \/ WaitAndFinish
    \/ Sleep
    \/ PeerIsObjectExist
    \/ PeerInitiate
    \/ PeerUploadAndFinish
    \/ \E d \in {pushedDigest, otherDigest} : Check(d)

SpecStore == InitStore /\ [][NextStore]_vars

(***************************************************************************)
(* The scoped closers: readCloser (types.go:395-412, utils.go:14-31) and   *)
(* writeCloser (types.go:414-431).  Close runs two operations in turn, the *)
(* underlying Close and the action, in an order that depends on the side.  *)
(***************************************************************************)
\* the closers, and what the underlying Close and the action may return
CloserKinds == {"readCloser", "readCloserValue", "writeCloser"}
UnderErrs == {"nil", "close failed", "already closed"}
ActionErrs == {"nil", "action failed", "action refused"}

\* the operation Close runs first: types.go:401 and utils.go:20 for the
\* read side, types.go:420 for the write side
firstOp(kind) == IF kind = "writeCloser" THEN "action" ELSE "underlying"

\* types.go:404, utils.go:23, types.go:423
secondOp(kind) == IF kind = "writeCloser" THEN "underlying" ELSE "action"

\* what the operation returns
opErr(op) == IF op = "action" THEN clActionErr ELSE clUnderErr

\* the operation runs
RunOp(op) ==
    /\ clActionRuns' = clActionRuns + (IF op = "action" THEN 1 ELSE 0)
    /\ clUnderCloses' = clUnderCloses + (IF op = "underlying" THEN 1 ELSE 0)

\* Close has just been called on a closer made by newReadCloser or
\* newWriteCloser
CloserInit ==
    /\ clPc = "call" /\ clKind \in CloserKinds
    /\ clUnderErr \in UnderErrs /\ clActionErr \in ActionErrs
    /\ clCalls = 1 /\ clActionRuns = 0 /\ clUnderCloses = 0 /\ clRet = "none"

\* types.go:401-403, 420-422, utils.go:20-22: the first operation; its
\* error is returned at once
CloserFirst ==
    /\ clPc = "call"
    /\ RunOp(firstOp(clKind))
    /\ IF opErr(firstOp(clKind)) # "nil"
       THEN clRet' = opErr(firstOp(clKind)) /\ clPc' = "done"
       ELSE clPc' = "second" /\ UNCHANGED clRet
    /\ UNCHANGED <<clKind, clUnderErr, clActionErr, clCalls>>
    /\ UNCHANGED besidesCloser

\* types.go:404, 423, utils.go:23: the second operation; Close returns
\* what it returns
CloserSecond ==
    /\ clPc = "second"
    /\ RunOp(secondOp(clKind))
    /\ clRet' = opErr(secondOp(clKind))
    /\ clPc' = "done"
    /\ UNCHANGED <<clKind, clUnderErr, clActionErr, clCalls>>
    /\ UNCHANGED besidesCloser

\* the caller calls Close once more
CloserCallAgain ==
    /\ clPc = "done"
    /\ clCalls < MaxCloses
    /\ clCalls' = clCalls + 1
    /\ clPc' = "call"
    /\ UNCHANGED <<clKind, clUnderErr, clActionErr, clActionRuns,
                   clUnderCloses, clRet>>
    /\ UNCHANGED besidesCloser

InitCloser ==
    /\ PushIdle /\ SplitIdle /\ LocIdle /\ ConvIdle /\ MergeIdle /\ StoreIdle
    /\ CloserInit /\ AdapterIdle

NextCloser ==
    \/ CloserFirst
    \/ CloserSecond
    \/ CloserCallAgain

SpecCloser == InitCloser /\ [][NextCloser]_vars

(***************************************************************************)
(* readerAtToReader (types.go:433-457): Read and Seek calls on an adapter  *)
(* over a source of raSrcLen bytes.                                        *)
(***************************************************************************)
\* the source behind the adapter, as a blob of plain bytes
raSource == <<DataSeg(raSrcLen)>>

\* the whence values of io.Seeker
Whences == {"SeekStart", "SeekCurrent", "SeekEnd"}

\* types.go:445  if whence != io.SeekCurrent
seekRefused(whence) == whence # "SeekCurrent"

\* types.go:452-457  newReaderAtToReader(ra)
AdapterInit ==
    /\ raSrcLen \in 0..MaxSrcLen /\ raPos = 0 /\ raOps = 0 /\ raLast = NoCall

\* types.go:438-442  Read(p) with len(p) = k: ReadAt at the cursor, which
\* then moves by len(p); the error is io.EOF when fewer bytes were there
AdapterRead(k) ==
    /\ raOps < MaxAdapterOps
    /\ LET n == ReadAtCount(raSource, raPos, k) IN
          /\ raLast' = [op |-> "read", arg |-> k, whence |-> "none", n |-> n,
                        err |-> IF n < k THEN "EOF" ELSE "nil",
                        before |-> raPos]
          /\ raPos' = readAdvance(raPos, k)
    /\ raOps' = raOps + 1
    /\ UNCHANGED raSrcLen
    /\ UNCHANGED besidesAdapter

\* types.go:444-450  Seek(offset, whence)
AdapterSeek(offset, whence) ==
    /\ raOps < MaxAdapterOps
    /\ IF seekRefused(whence)
       THEN /\ raLast' = [op |-> "seek", arg |-> offset, whence |-> whence,
                          n |-> 0, err |-> "only support SeekCurrent whence",
                          before |-> raPos]
            /\ UNCHANGED raPos
       ELSE /\ raPos' = seekCurrent(raPos, offset)
            /\ raLast' = [op |-> "seek", arg |-> offset, whence |-> whence,
                          n |-> raPos', err |-> "nil", before |-> raPos]
    /\ raOps' = raOps + 1
    /\ UNCHANGED raSrcLen
    /\ UNCHANGED besidesAdapter

InitAdapter ==
    /\ PushIdle /\ SplitIdle /\ LocIdle /\ ConvIdle /\ MergeIdle /\ StoreIdle
    /\ CloserIdle /\ AdapterInit

NextAdapter ==
    \/ \E k \in 0..MaxReadLen : AdapterRead(k)
    \/ \E offset \in (-1)..1, whence \in Whences : AdapterSeek(offset, whence)

SpecAdapter == InitAdapter /\ [][NextAdapter]_vars

(***************************************************************************)
(* Properties of the chunked uploader, checked under Spec.                 *)
(***************************************************************************)
\* the attempt whose calls, tasks and lastErr the state holds has returned
AttemptReturned == attemptNo > 0 /\ pc \in {"push", "sleep", "done"}

NoUploadCalls ==
    /\ calls.initiate = 0
    /\ calls.upload = 0
    /\ calls.complete = 0
    /\ calls.abort = 0

\* C1: a push attempt whose existence check finds the object key in the
\* store returns success at once, Push returns success, and the attempt
\* issues no initiate, uploadPart, complete or abort call and opens no
\* session.
C1_ExistenceShortCircuit ==
    existSeen = "yes" =>
        /\ pc = "done"
        /\ lastErr = Nil
        /\ result = Nil
        /\ exitReason = "success"
        /\ NoUploadCalls
        /\ calls.exist = 1
        /\ imur = 0
        /\ \A id \in DOMAIN sessions : sessions[id].attempt # attemptNo

\* C1 witness: a second attempt, after a failed first one, found the key and
\* returned success without any upload call
C1_Witness ==
    /\ existSeen = "yes"
    /\ pc = "done"
    /\ result = Nil
    /\ attemptNo = 2
    /\ NoUploadCalls

\* C2: every session a push attempt initiated has been completed
\* successfully or aborted by the time that attempt returns.
C2_NoDanglingSession ==
    \A id \in DOMAIN sessions :
        (sessions[id].attempt < attemptNo \/ AttemptReturned)
            => sessions[id].state \in {"completed", "aborted"}

\* C3: complete is invoked on a session only after uploadPart has succeeded
\* for every chunk of the blob, at most once per session, and never on a
\* session in which a chunk upload failed or that abort was called on.
C3_CompletionOrdering ==
    /\ \A id \in DOMAIN sessions :
          /\ sessions[id].completeCalls <= 1
          /\ sessions[id].completeCalls = 1 =>
                /\ sessions[id].abortCalls = 0
                /\ sessions[id].state # "aborted"
    /\ calls.complete <= 1
    /\ calls.complete = 1 =>
          /\ imur # 0
          /\ sessions[imur].completeCalls = 1
          /\ chunks = splitFileByPartSize(blobSize, multipartChunkSize).chunks
          /\ DOMAIN tasks = DOMAIN chunks
          /\ \A i \in DOMAIN tasks : tasks[i] \in {"sending", "ok"}
          /\ calls.upload = Len(chunks)
          /\ calls.abort = 0

\* C3 witness: a session of MaxChunks chunks was completed
C3_Witness ==
    /\ calls.complete = 1
    /\ Len(chunks) = MaxChunks
    /\ \A i \in DOMAIN tasks : tasks[i] = "ok"
    /\ imur # 0
    /\ sessions[imur].state = "completed"

ExpectedAttemptTimes == <<0, 1, 3, 7>>
ExpectedSleeps == <<1, 2, 4>>

IsPrefix(p, q) == Len(p) <= Len(q) /\ \A i \in DOMAIN p : p[i] = q[i]

\* C4: the attempts of a Push start at 0 s, 1 s, 3 s, 7 s, separated by
\* sleeps of 1 s, 2 s, 4 s and never one of 8 s or more; a Push whose
\* attempts all fail with the context never cancelled makes exactly 4
\* attempts and returns the error of the 4th; an attempt that succeeds ends
\* Push with success and no further attempt.
C4_BackoffSchedule ==
    /\ IsPrefix(attempts, ExpectedAttemptTimes)
    /\ IsPrefix(sleeps, ExpectedSleeps)
    /\ \A i \in DOMAIN sleeps : sleeps[i] < maxBackoff
    /\ (pc = "done" /\ result # Nil /\ ~ctxDone) =>
          /\ exitReason = "exhausted"
          /\ attempts = ExpectedAttemptTimes
          /\ sleeps = ExpectedSleeps
          /\ result = lastErr
          /\ result.attempt = 4
    /\ (AttemptReturned /\ lastErr = Nil) =>
          /\ pc = "done"
          /\ result = Nil
          /\ exitReason = "success"
    /\ (pc = "done" /\ result = Nil) => lastErr = Nil

\* C4 witness: four failed attempts, the context never cancelled
C4_Witness ==
    /\ pc = "done"
    /\ ~ctxDone
    /\ exitReason = "exhausted"
    /\ attempts = ExpectedAttemptTimes
    /\ result.attempt = 4

\* C5: once the context is cancelled, a Push that has made an attempt starts
\* no further attempt and sits out no backoff sleep.
C5_CancelStopsRetry ==
    [][(ctxDone /\ attemptNo > 0) =>
          (attempts' = attempts /\ sleeps' = sleeps)]_vars

\* C6: when Push returns because the context was cancelled, what it returns
\* is a cancellation error, not the transport error of the failed attempt.
C6_CancelOutcomeDistinct ==
    exitReason = "cancelled" => result.cause = "canceled"

\* the latest attempt returned the rejection of splitFileByPartSize
RejectedAttempt ==
    /\ AttemptReturned
    /\ lastErr.stage = "split blob by part num"
    /\ lastErr.attempt = attemptNo

\* C9 as stated: an attempt that is rejected for too many parts has issued
\* no object-store call at all, the existence check included.
C9_RejectionBeforeAnyCall == RejectedAttempt => calls = NoCalls

\* C9 as amended: an attempt that is rejected for too many parts has issued
\* exactly one object-store call, the existence check, which answered that
\* the key is absent, and no initiate, uploadPart, complete or abort call.
C9_RejectionBeforeUpload ==
    RejectedAttempt =>
        /\ calls = [NoCalls EXCEPT !.exist = 1]
        /\ existSeen = "no"
        /\ imur = 0
        /\ \A id \in DOMAIN sessions : sessions[id].attempt # attemptNo

\* C9 witness: the oversized blob was rejected, in a retry too
C9_Witness ==
    /\ RejectedAttempt
    /\ attemptNo = 2
    /\ blobSize = maxPartCount * multipartChunkSize

(***************************************************************************)
(* Properties of splitFileByPartSize, checked under SpecSplit.             *)
(***************************************************************************)
SplitReturnedChunks ==
    /\ splitPc = "done"
    /\ splitIn.blobSize >= 0
    /\ splitIn.chunkSize > 0
    /\ splitOut.err = "nil"

CeilDiv(a, b) == (a + b - 1) \div b

\* C7: a returned chunk list has ceil(S/C) chunks, numbered 1..n in order,
\* chunk i at offset (i-1)*C, of size C but for a possibly shorter last one,
\* and the chunks cover [0, S) with no gap and no overlap.
C7_ChunkPartition ==
    SplitReturnedChunks =>
        LET S == splitIn.blobSize
            C == splitIn.chunkSize
            cs == splitOut.chunks
            n == Len(cs)
        IN  /\ n = CeilDiv(S, C)
            /\ S = 0 => n = 0
            /\ \A i \in 1..n :
                  /\ cs[i].Number = i
                  /\ cs[i].Offset = (i - 1) * C
                  /\ cs[i].Size > 0
                  /\ cs[i].Size <= C
                  /\ i < n => cs[i].Size = C
                  /\ i < n => cs[i].Offset + cs[i].Size = cs[i + 1].Offset
            /\ n > 0 => cs[1].Offset = 0 /\ cs[n].Offset + cs[n].Size = S

\* C7 witness: several chunks, the last one shorter
C7_Witness ==
    /\ SplitReturnedChunks
    /\ Len(splitOut.chunks) >= 3
    /\ splitOut.chunks[Len(splitOut.chunks)].Size < splitIn.chunkSize

\* C8: every chunk list splitFileByPartSize returns has fewer than 10000
\* parts.
C8_PartCountCeiling ==
    SplitReturnedChunks => Len(splitOut.chunks) < maxPartCount

(***************************************************************************)
(* Properties of unpackBootstrapFromNydusTar, checked under SpecLocator.   *)
(***************************************************************************)
\* the blob ends with the bootstrap's bytes followed by its header
IsNydusTar(b) ==
    /\ Len(b) >= 2
    /\ b[Len(b)].kind = "hdr"
    /\ b[Len(b)].name = bootstrapNameInTar
    /\ b[Len(b) - 1].kind = "data"
    /\ b[Len(b) - 1].len = b[Len(b)].size

\* the bytes of the bootstrap entry of such a blob
BootstrapBytes(b) ==
    [j \in 1..b[Len(b)].size |-> <<"data", Len(b) - 1, j - 1>>]

HasBootstrapEntry(b) ==
    \E k \in DOMAIN b : b[k].kind = "hdr" /\ b[k].name = bootstrapNameInTar

\* C11: on every blob without an entry named image.boot, the empty blob
\* included, the scan ends with "bootstrap not found" and has written
\* nothing; it does not end with a seek or parse error.
C11_BootstrapNotFound ==
    (lpc = "done" /\ ~HasBootstrapEntry(blob)) =>
        /\ lerr = "can't find bootstrap"
        /\ target = <<>>

\* the last 512-byte block of the blob is there and is not a tar header
LastBlockUnparsable(b) ==
    /\ BlobLen(b) >= headerSize
    /\ tarNext(b, BlobLen(b) - headerSize).err

\* C12: when the block the scan starts from does not parse as a tar
\* header, the scan goes on: it ends in success if the blob holds a
\* bootstrap entry and in "bootstrap not found" if it holds none.
C12_ScanContinuesPastGarbage ==
    (lpc = "done" /\ LastBlockUnparsable(blob)) =>
        lerr = IF HasBootstrapEntry(blob) THEN "nil"
               ELSE "can't find bootstrap"

(***************************************************************************)
(* Properties of Convert and its sink, checked under SpecConvert.          *)
(***************************************************************************)
\* Close has returned
CloseReturned == sinkPc = "returned"

\* Close has been called and has not returned
InClose == sinkPc \in {"waitUnpack", "openFifo", "copy"}

\* C13: Close returns nil only if the extraction succeeded, the builder
\* subprocess finished successfully and every byte it produced was copied
\* to dest; a builder failure makes Close return an error, whatever the
\* interleaving of the builder goroutine and the copy loop.
C13_CloseNilMeansSuccess ==
    (CloseReturned /\ closeRet = "nil") =>
        /\ unpackPc = "ok"
        /\ builderPc = "exitOk"
        /\ copied = produced

\* C14: Close always returns: a Close that has been called and has not
\* returned is never left without a step that can be taken, in particular
\* not after the extraction has failed.
C14_CloseReturns == InClose => ENABLED NextConvert

\* C15: after Convert has returned an error, and after Close has returned
\* anything, the working directory of the call does not exist.
C15_WorkDirRemoved ==
    (cpc = "failed" \/ CloseReturned) => workDir # "exists"

(***************************************************************************)
(* Properties of Merge, checked under SpecMerge.                           *)
(***************************************************************************)
\* C16: the path list handed to the merge tool has one path per layer, and
\* its i-th path is the file named by the digest of the caller's i-th
\* layer, in whatever order the extraction tasks started and finished.
C16_MergePathOrder ==
    \A c \in DOMAIN toolCalls :
        /\ Len(toolCalls[c].paths) = Len(layers)
        /\ \A i \in DOMAIN layers :
              toolCalls[c].paths[i] = [dir |-> "workDir", name |-> layers[i].hex]

\* C16 witness: the merge tool has been invoked for MaxLayers layers of
\* different digests whose tasks finished in the reverse of the caller's
\* order
C16_Witness ==
    /\ toolCalls # <<>>
    /\ Len(layers) = MaxLayers
    /\ MaxLayers >= 2
    /\ layers[1] # layers[MaxLayers]
    /\ \A i \in DOMAIN finished : finished[i] = MaxLayers + 1 - i

\* C17: the merge tool is invoked at most once, and only when all the
\* extraction tasks, one per layer, have finished successfully; if an
\* extraction has failed, Merge returns an error, the tool has not been
\* invoked and nothing has been written to dest.
C17_MergeBarrier ==
    /\ Len(toolCalls) <= 1
    /\ \A c \in DOMAIN toolCalls :
          /\ DOMAIN toolCalls[c].tasks = DOMAIN layers
          /\ \A i \in DOMAIN layers : toolCalls[c].tasks[i] = "ok"
    /\ (\E i \in DOMAIN mtasks : mtasks[i] = "err") =>
          /\ toolCalls = <<>>
          /\ mdest = "empty"
          /\ mpc = "done" => mret = "unpack all bootstraps"

\* C17 witness: Merge has returned after an extraction failed while the
\* other layer's extraction succeeded
C17_Witness ==
    /\ mpc = "done"
    /\ \E i \in DOMAIN mtasks : mtasks[i] = "err"
    /\ \E i \in DOMAIN mtasks : mtasks[i] = "ok"
    /\ mret = "unpack all bootstraps"

(***************************************************************************)
(* Properties of the store shared by two Push calls and Check, checked     *)
(* under SpecStore.                                                        *)
(***************************************************************************)
\* what Check returned answers what the store answered, three ways
CheckAnswersStore ==
    checkRet # NoCheck =>
        /\ checkSaw.err # "nil" => checkRet = [id |-> "", err |-> checkSaw.err]
        /\ (checkSaw.err = "nil" /\ checkSaw.id # "") =>
              checkRet = [id |-> checkSaw.id, err |-> "nil"]
        /\ (checkSaw.err = "nil" /\ checkSaw.id = "") =>
              checkRet = [id |-> "", err |-> ErrNotFound]
        /\ ErrNotFound \notin StoreErrors

\* C18: Check returns the hex digest and no error when the key exists, the
\* not-found error when it does not, and the store's own error when the
\* existence query fails; and a step that is a Check changes nothing of
\* the store, the sessions, the calls issued by the pushes or the pushes
\* themselves.
C18_CheckPureQuery ==
    /\ []CheckAnswersStore
    /\ [][<<checkSaw, checkRet>>' # <<checkSaw, checkRet>> =>
              UNCHANGED <<pushVars, peerPc, peerImur, peerRet>>]_vars

\* C18 witness: Check has found the key that a completed upload put in the
\* store
C18_Witness ==
    /\ checkRet = [id |-> "aa", err |-> "nil"]
    /\ \E id \in DOMAIN sessions : sessions[id].state = "completed"

\* C19: every attempt starts over with the existence check, so no session
\* is initiated in an attempt that has not asked, or that was told that
\* the key exists; and every uploadPart, complete and abort call made on a
\* session was made by the attempt that initiated it, the session in use
\* being the one the attempt in progress initiated.
C19_FreshSessionPerAttempt ==
    /\ calls.initiate > 0 => (calls.exist = 1 /\ existSeen = "no")
    /\ \A id \in DOMAIN sessions :
          sessions[id].users \subseteq
              {<<sessions[id].owner, sessions[id].attempt>>}
    /\ (imur # 0 /\ pc \in {"spawn", "upload"}) =>
          /\ sessions[imur].owner = "push"
          /\ sessions[imur].attempt = attemptNo

\* C19 witness: a retry found the key, put there in the meantime by the
\* other caller, and Push returned success; the first attempt had
\* initiated and used a session of its own
C19_Witness ==
    /\ pc = "done" /\ exitReason = "success"
    /\ attemptNo >= 2
    /\ existSeen = "yes"
    /\ calls.initiate = 0
    /\ \E id \in DOMAIN sessions :
          /\ sessions[id].owner = "push"
          /\ sessions[id].attempt = 1
          /\ sessions[id].users = {<<"push", 1>>}

\* C20: of the Push calls running concurrently for one digest, at most one
\* initiates a multipart session and uploads the content for the key.
C20_DedupUnderConcurrency ==
    Cardinality({id \in DOMAIN sessions :
                    sessions[id].state = "completed"}) <= 1

(***************************************************************************)
(* Properties of the chunk tasks of a push attempt, checked under Spec.    *)
(***************************************************************************)
\* a chunk upload of the attempt has failed
SomeChunkFailed == \E i \in DOMAIN tasks : tasks[i] = "err"

\* C21: once a chunk upload of the attempt has failed, no upload that is
\* still in flight is left to succeed, and the attempt returns only after
\* an abort call on its session.
C21_FailureCancelsInFlight ==
    /\ [][(pc = "upload" /\ SomeChunkFailed) =>
              \A i \in DOMAIN tasks :
                  tasks[i] = "running" =>
                      (i \in DOMAIN tasks' => tasks'[i] # "sending")]_vars
    /\ []((AttemptReturned /\ lastErr.stage = "uploading parts failed") =>
              sessions[imur].abortCalls = 1)

\* C22: the part list handed to complete holds one part per chunk of the
\* blob, in ascending part-number order 1..n.
C22_OrderedPartList ==
    calls.complete > 0 => parts = [i \in 1..Len(chunks) |-> i]

\* C25: abort and complete are called on the attempt's session only when
\* every chunk task of the attempt has returned, so no uploadPart call on
\* the session is running or yet to start once it is aborted or completed.
C25_FinishAfterAllTasks ==
    /\ (calls.abort + calls.complete > 0) =>
          /\ DOMAIN tasks = DOMAIN chunks
          /\ \A i \in DOMAIN tasks : tasks[i] \in {"ok", "err"}
    /\ \A id \in DOMAIN sessions :
          (sessions[id].completeCalls + sessions[id].abortCalls > 0
           /\ sessions[id].attempt = attemptNo)
              => calls.upload = Len(chunks)

\* C25 witness: the session of an attempt on MaxChunks chunks has been
\* aborted after one chunk failed and another was uploaded
C25_Witness ==
    /\ calls.abort = 1
    /\ Len(chunks) = MaxChunks
    /\ \E i \in DOMAIN tasks : tasks[i] = "err"
    /\ \E i \in DOMAIN tasks : tasks[i] = "ok"

\* C26: a task that has its part to hand over finds room in the part
\* channel and finds it open, so it never blocks on the send nor sends on
\* a closed channel; each task sends at most once.
C26_FanInNeverBlocks ==
    /\ \A i \in DOMAIN tasks :
          (pc = "upload" /\ tasks[i] = "sending") =>
              /\ Len(partsChan) < partsChanCap(chunks)
              /\ ~partsClosed
    /\ \A m, n \in DOMAIN partsChan : partsChan[m] = partsChan[n] => m = n

\* C26 witness: the last of MaxChunks tasks is about to send while all the
\* other parts are in the channel
C26_Witness ==
    /\ pc = "upload"
    /\ Len(chunks) = MaxChunks
    /\ MaxChunks >= 2
    /\ Len(partsChan) = MaxChunks - 1
    /\ \E i \in DOMAIN tasks : tasks[i] = "sending"

\* C23: the blob fifo is created and the builder subprocess is started
\* only after the extraction task has finished successfully, never while
\* it is running or after it failed.
C23_ExtractionBeforeBuilder ==
    (builderPc # "off" \/ blobRc # "none" \/ sinkPc \in {"openFifo", "copy"})
        => unpackPc = "ok"

\* C23 witness: the builder is running after an extraction that read
\* MaxWrites writes from the pipe
C23_Witness ==
    /\ builderPc = "running"
    /\ unpackPc = "ok"
    /\ written = MaxWrites

(***************************************************************************)
(* Properties of the scoped closers, checked under SpecCloser.             *)
(***************************************************************************)
\* C24: on the read side and on the write side, every Close call that has
\* returned has run the action exactly once, whether the underlying Close
\* succeeded or failed, and has returned the first error met among the
\* operations it ran, nil if there was none.
C24_ActionRunsOncePerClose ==
    clPc = "done" =>
        /\ clActionRuns = clCalls
        /\ clRet = IF opErr(firstOp(clKind)) # "nil"
                   THEN opErr(firstOp(clKind))
                   ELSE opErr(secondOp(clKind))

(***************************************************************************)
(* Properties of readerAtToReader, checked under SpecAdapter.              *)
(***************************************************************************)
\* C27: after a Read the cursor stands exactly as many bytes further as
\* the Read returned, also when it returned fewer bytes than asked for or
\* none; a Seek with a whence other than SeekCurrent returns an error and
\* leaves the cursor where it was, and a Seek relative to the current
\* position moves it by the offset.
C27_CursorFollowsBytesRead ==
    /\ raLast.op = "read" => raPos = raLast.before + raLast.n
    /\ raLast.op = "seek" =>
          IF raLast.whence = "SeekCurrent"
          THEN raLast.err = "nil" /\ raPos = raLast.before + raLast.arg
          ELSE raLast.err # "nil" /\ raPos = raLast.before

=============================================================================
